---------------------------- MODULE Spec2Model ----------------------------
(***************************************************************************)
(* Audit-event logging, audit workflow and re-audit chains of the         *)
(* energi-auditor client.                                                  *)
(*                                                                         *)
(* Logger (lib/logging): in-memory cache, daily audit/error files.         *)
(* POST /api/audit and POST /api/audit/reaudit: the two audit workflows,   *)
(* each cut into one action per segment between two awaits, so that the    *)
(* interleavings of concurrent requests are those of the event loop.       *)
(* GET /api/audit/[id]/reaudit: the chain query.                           *)
(***************************************************************************)
EXTENDS Integers, Sequences, FiniteSets, TLC

(***************************************************************************)
(* Bounds of the model                                                     *)
(***************************************************************************)
\* number of requests ever started
MaxRequests == 3
\* number of requests started where every input and fault is explored
WorkflowRequests == 1
\* number of requests started where the cache is filled concurrently
BufferRequests == 2
\* last instant of the logical clock
MaxTime == 1
\* number of clock instants in one UTC day
DayLen == 1
\* number of storage faults (failed file appends, failed database calls)
MaxFaults == 1
\* number of findings of the reports whose scores are explored
MaxFindings == 5
\* the most audits of one owner on one day in the files an earlier process left
MaxPerDay == 21
\* capacity of the in-memory cache (1000 in the source, scaled down)
maxCacheSize == 3

(***************************************************************************)
(* Program constants                                                       *)
(***************************************************************************)
MAX_CONTRACT_SIZE == 100000

Min(a, b) == IF a < b THEN a ELSE b
Max(a, b) == IF a > b THEN a ELSE b

\* elements of a sequence
Range(s) == {s[i] : i \in DOMAIN s}

\* the last n elements of s: Array.prototype.slice(-n) for n > 0
SliceLast(s, n) == IF Len(s) <= n THEN s ELSE SubSeq(s, Len(s) - n + 1, Len(s))

(***************************************************************************)
(* Identities                                                              *)
(***************************************************************************)
NoSession == "no-session"
Owners == {"alice@energi.team", "bob@energi.team"}
Sessions == Owners \cup {NoSession, "eve@other.org"}
allowedDomain == "@energi.team"
\* the part of an e-mail address from its "@" on
DomainOf(email) == IF email \in Owners THEN "@energi.team" ELSE "@other.org"
endsWithAllowedDomain(email) == DomainOf(email) = allowedDomain

(***************************************************************************)
(* Contract text, abstracted to what the code reads of it: whether the     *)
(* body carries it at all, its length and its length after trim().         *)
(***************************************************************************)
Code(def, len, tlen) == [defined |-> def, length |-> len, trimLength |-> tlen]
UndefinedCode == Code(FALSE, 0, 0)
EmptyCode == Code(TRUE, 0, 0)
BlankCode == Code(TRUE, 3, 0)
LargestCode == Code(TRUE, MAX_CONTRACT_SIZE, MAX_CONTRACT_SIZE)
OversizedCode == Code(TRUE, MAX_CONTRACT_SIZE + 1, MAX_CONTRACT_SIZE + 1)
CodeInputs == {UndefinedCode, EmptyCode, BlankCode, LargestCode, OversizedCode}

\* validateContractCode: "ok" or the code of the AuditError it throws
validateContractCode(code) ==
    IF ~code.defined \/ code.length = 0 THEN "INVALID_INPUT"
    ELSE IF code.trimLength = 0 THEN "EMPTY_CONTRACT"
    ELSE IF code.length > MAX_CONTRACT_SIZE THEN "CONTRACT_TOO_LARGE"
    ELSE "ok"

(***************************************************************************)
(* Severity Scorer                                                         *)
(***************************************************************************)
Severities == {"LOW", "MEDIUM", "HIGH", "CRITICAL"}
\* labels the engine may send; "" stands for a finding without a label
RawLabels == Severities \cup {"critical", "High", "SEV-X", ""}

\* String.prototype.toUpperCase on the labels of RawLabels
toUpperCase(s) ==
    CASE s = "critical" -> "CRITICAL"
      [] s = "High" -> "HIGH"
      [] OTHER -> s

\* normalizeSeverity returning the upper-cased label whatever it is
normalizeSeverity_PassThrough(severity) == toUpperCase(severity)

normalizeSeverity(severity) ==
    IF severity # "" /\ toUpperCase(severity) \in Severities
    THEN toUpperCase(severity)
    ELSE "LOW"

\* number of positions of vulns that hold severity sev
CountSev(vulns, sev) == Cardinality({i \in DOMAIN vulns : vulns[i] = sev})

summarizeVulnerabilities(vulns) ==
    [CRITICAL |-> CountSev(vulns, "CRITICAL"),
     HIGH |-> CountSev(vulns, "HIGH"),
     MEDIUM |-> CountSev(vulns, "MEDIUM"),
     LOW |-> CountSev(vulns, "LOW"),
     total |-> Len(vulns)]

\* calculateRiskScore without Math.min
calculateRiskScore_Uncapped(vulns) ==
    LET summary == summarizeVulnerabilities(vulns)
    IN summary.CRITICAL * 25 + summary.HIGH * 15
       + summary.MEDIUM * 5 + summary.LOW * 1

calculateRiskScore(vulns) ==
    LET summary == summarizeVulnerabilities(vulns)
    IN Min(100, summary.CRITICAL * 25 + summary.HIGH * 15
                + summary.MEDIUM * 5 + summary.LOW * 1)

calculatePostAuditScore(vulns) ==
    Max(0, Min(100, 100 - calculateRiskScore(vulns)))

calculateSeverityBreakdown(vulns) ==
    [critical |-> CountSev(vulns, "CRITICAL"),
     high |-> CountSev(vulns, "HIGH"),
     medium |-> CountSev(vulns, "MEDIUM"),
     low |-> CountSev(vulns, "LOW")]

(***************************************************************************)
(* Detection engine: what auditSmartContract can come back with            *)
(***************************************************************************)
EngineFailures == {"401", "429", "402", "ECONNABORTED", "axios_other", "non_axios"}
RawFindingsInputs == {<<>>, <<"critical", "SEV-X">>}
EngineOutcomes ==
    {[ok |-> FALSE, cause |-> c, raw |-> <<>>] : c \in EngineFailures}
    \cup {[ok |-> TRUE, cause |-> "parsed", raw |-> f] : f \in RawFindingsInputs}
    \cup {[ok |-> TRUE, cause |-> "unparseable", raw |-> <<>>]}

\* the AuditError thrown for a failed engine call
ClassifyEngineError(cause) ==
    CASE cause = "401" ->
           [code |-> "UNAUTHORIZED", message |-> "Invalid API key provided to ChainGPT"]
      [] cause = "429" ->
           [code |-> "RATE_LIMITED", message |-> "Rate limit exceeded. Please try again later."]
      [] cause = "402" ->
           [code |-> "INSUFFICIENT_CREDITS",
            message |-> "Insufficient credits or quota exceeded for ChainGPT API"]
      [] cause = "ECONNABORTED" ->
           [code |-> "TIMEOUT",
            message |-> "Audit request timed out. The contract may be too complex."]
      [] cause = "axios_other" ->
           [code |-> "API_ERROR", message |-> "Audit request failed"]
      [] OTHER ->
           [code |-> "UNKNOWN_ERROR",
            message |-> "An unexpected error occurred during the audit"]

\* the AuditError thrown by validateContractCode
ValidationError(code) ==
    CASE code = "INVALID_INPUT" ->
           [code |-> code, message |-> "Contract code must be a non-empty string"]
      [] code = "EMPTY_CONTRACT" ->
           [code |-> code, message |-> "Contract code cannot be empty"]
      [] OTHER ->
           [code |-> code, message |-> "Contract code exceeds maximum size"]

\* data.vulnerabilities of a successful engine call, as severity labels:
\* the findings received, or the one "manual review" finding made up for a
\* response that holds no JSON
DataVulnerabilities(outcome) ==
    IF outcome.cause = "unparseable" THEN <<"MEDIUM">> ELSE outcome.raw

\* the findings of the report of a successful engine call
ParseVulnerabilities(outcome) ==
    LET data == DataVulnerabilities(outcome)
    IN [i \in DOMAIN data |-> normalizeSeverity(data[i])]


(***************************************************************************)
(* State                                                                   *)
(***************************************************************************)
VARIABLES
    isProduction,   \* Logger.isProduction, fixed at construction
    now,            \* the clock read by Date.now() and new Date()
    inMemoryCache,  \* Logger.inMemoryCache
    auditFiles,     \* audit-<date>.jsonl, one sequence of lines per day
    errorFiles,     \* error-<date>.jsonl, one sequence of lines per day
    records,        \* the AuditReport collection, in insertion order
    pc,             \* where each request stands
    req,            \* the local variables of each request
    nextReq,        \* number of requests started so far
    nextLogId,      \* number of ids handed out by Logger.generateId
    faults,         \* number of storage faults so far
    pushed,         \* history: every entry given to addToCache, in order
    failedAppends   \* history: the audit entries whose file append failed

vars == <<isProduction, now, inMemoryCache, auditFiles, errorFiles, records,
          pc, req, nextReq, nextLogId, faults, pushed, failedAppends>>

Reqs == 1..MaxRequests
Days == 0..(MaxTime \div DayLen)
\* the UTC date of a timestamp: toISOString().split('T')[0]
DateOf(timestamp) == timestamp \div DayLen

\* storage faults still to be injected
CanFail == faults < MaxFaults
Outcomes == IF CanFail THEN {TRUE, FALSE} ELSE {TRUE}

(***************************************************************************)
(* Logger                                                                  *)
(***************************************************************************)
\* appendToFile: one line more in the day's file, or nothing when the
\* write fails (the error is caught and only reported on the console)
appendToFile(files, date, entry, ok) ==
    IF ok THEN [files EXCEPT ![date] = Append(@, entry)] ELSE files

\* addToCache without its size check
addToCache_NoEviction(cache, entry) == Append(cache, entry)

\* addToCache cutting the cache with slice(0, maxCacheSize)
addToCache_KeepOldest(cache, entry) ==
    LET grown == Append(cache, entry)
    IN IF Len(grown) > maxCacheSize THEN SubSeq(grown, 1, maxCacheSize) ELSE grown

addToCache(cache, entry) ==
    LET grown == Append(cache, entry)
    IN IF Len(grown) > maxCacheSize THEN SliceLast(grown, maxCacheSize) ELSE grown

\* the entry logAuditStart writes (type included)
logAuditStart(id, timestamp, userEmail, contractSize, requestId) ==
    [id |-> id, timestamp |-> timestamp, userEmail |-> userEmail,
     contractSize |-> contractSize, creditsConsumed |-> 0, success |-> FALSE,
     requestId |-> requestId, type |-> "audit_start"]

\* logAuditComplete charging one credit whatever the outcome
logAuditComplete_AlwaysCredit(logId, timestamp, userEmail, contractSize, success, auditDuration, vulns, errorMessage, requestId) ==
    [id |-> logId, timestamp |-> timestamp, userEmail |-> userEmail,
     contractSize |-> contractSize,
     creditsConsumed |-> 1, success |-> success,
     auditDuration |-> auditDuration, requestId |-> requestId,
     type |-> "audit_complete"]
    @@ (IF Len(vulns) = 1
        THEN [vulnerabilitiesFound |-> Len(vulns[1]),
              severityBreakdown |-> calculateSeverityBreakdown(vulns[1])]
        ELSE <<>>)
    @@ (IF errorMessage # "" THEN [errorMessage |-> errorMessage] ELSE <<>>)

\* the entry logAuditComplete writes; a field whose argument is undefined
\* is absent (vulns is <<>> or <<findings>>, errorMessage "" when undefined)
logAuditComplete(logId, timestamp, userEmail, contractSize, success, auditDuration, vulns, errorMessage, requestId) ==
    [id |-> logId, timestamp |-> timestamp, userEmail |-> userEmail,
     contractSize |-> contractSize,
     creditsConsumed |-> IF success THEN 1 ELSE 0, success |-> success,
     auditDuration |-> auditDuration, requestId |-> requestId,
     type |-> "audit_complete"]
    @@ (IF Len(vulns) = 1
        THEN [vulnerabilitiesFound |-> Len(vulns[1]),
              severityBreakdown |-> calculateSeverityBreakdown(vulns[1])]
        ELSE <<>>)
    @@ (IF errorMessage # "" THEN [errorMessage |-> errorMessage] ELSE <<>>)

\* the entry logError writes; userEmail "" when undefined
logError(id, timestamp, errorType, errorMessage, userEmail, requestId) ==
    [id |-> id, timestamp |-> timestamp, errorType |-> errorType,
     errorMessage |-> errorMessage, requestId |-> requestId]
    @@ (IF userEmail # "" THEN [userEmail |-> userEmail] ELSE <<>>)

\* a line of a file that is not JSON (an append cut short, a hand edit)
MalformedLine == [text |-> "{\"id\":\"17"]
\* JSON.parse(line) returns; a line written by appendToFile parses to the
\* entry it was made from (JSON.stringify leaves out the undefined fields,
\* which the entries here do not have)
JSONparses(line) == line # MalformedLine

\* readLogFile: the parsed lines of a day's file; none when the file is
\* missing, and none when JSON.parse throws on one of its lines, since the
\* one try block is around the whole read
readLogFile(files, date) ==
    IF date \notin DOMAIN files THEN <<>>
    ELSE IF \E i \in DOMAIN files[date] : ~JSONparses(files[date][i]) THEN <<>>
    ELSE files[date]

\* the filter getAuditLogs and getRecentActivity apply to an entry
IsCompletedAudit(log) ==
    \/ ("type" \in DOMAIN log /\ log.type = "audit_complete")
    \/ "type" \notin DOMAIN log
    \/ "success" \in DOMAIN log

RECURSIVE ReadDays(_, _, _)
\* the lines of the files of the days from..to, in day order
ReadDays(files, from, to) ==
    IF from > to THEN <<>>
    ELSE readLogFile(files, from) \o ReadDays(files, from + 1, to)

NoDate == -1

\* getAuditLogs(startDate, endDate, userEmail); NoDate and "" stand for
\* an argument left out
getAuditLogs(startDate, endDate, userEmail) ==
    LET keep(log) == IsCompletedAudit(log)
                     /\ (userEmail = "" \/ log.userEmail = userEmail)
    IN IF isProduction
       THEN SelectSeq(inMemoryCache, keep)
       ELSE LET start == IF startDate = NoDate THEN DateOf(now) ELSE startDate
                end == IF endDate = NoDate THEN DateOf(now) ELSE endDate
            IN SelectSeq(ReadDays(auditFiles, start, end + 1), keep)

RECURSIVE SumCredits(_)
SumCredits(logs) ==
    IF logs = <<>> THEN 0 ELSE logs[1].creditsConsumed + SumCredits(Tail(logs))

RECURSIVE SumSeq(_)
\* reduce((sum, x) => sum + x, 0)
SumSeq(xs) == IF xs = <<>> THEN 0 ELSE xs[1] + SumSeq(Tail(xs))

RECURSIVE KeysInOrder(_)
\* the keys of a Map filled in the order of keys: each key once, in the
\* order of its first occurrence
KeysInOrder(keys) ==
    IF keys = <<>> THEN <<>>
    ELSE LET front == KeysInOrder(SubSeq(keys, 1, Len(keys) - 1))
             last == keys[Len(keys)]
         IN IF last \in Range(front) THEN front ELSE Append(front, last)

\* a quotient n / d that is not evaluated: the number n / d when d # 0,
\* NaN or an infinity when d = 0
Ratio(n, d) == [num |-> n, den |-> d]
Zero == Ratio(0, 1)

\* successRate without its test of totalAudits
SuccessRate_Unguarded(successful, totalAudits) == Ratio(successful * 100, totalAudits)

\* successRate: (successful / totalAudits) * 100, or 0
SuccessRate(successful, totalAudits) ==
    IF totalAudits > 0 THEN Ratio(successful * 100, totalAudits) ELSE Zero

\* the row of userStats for email
UserStat(logs, email) ==
    LET own == SelectSeq(logs, LAMBDA log : log.userEmail = email)
    IN [email |-> email, auditCount |-> Len(own),
        creditsConsumed |-> SumSeq([i \in DOMAIN own |-> own[i].creditsConsumed]),
        lastAudit |-> (CHOOSE t \in {own[i].timestamp : i \in DOMAIN own} :
                                        \A i \in DOMAIN own : own[i].timestamp <= t)]

\* the row of dailyStats for date
DailyStat(logs, date) ==
    LET ofDay == SelectSeq(logs, LAMBDA log : DateOf(log.timestamp) = date)
    IN [date |-> date, auditCount |-> Len(ofDay),
        creditsConsumed |-> SumSeq([i \in DOMAIN ofDay |-> ofDay[i].creditsConsumed])]

\* the statistics generateStatistics computes from the logs it has read
StatisticsOf(logs) ==
    LET successfulAudits == SelectSeq(logs, LAMBDA log : log.success)
        auditDurations == [i \in DOMAIN successfulAudits |->
                              successfulAudits[i].auditDuration]
        breakdowns == SelectSeq(successfulAudits,
                                LAMBDA log : "severityBreakdown" \in DOMAIN log)
        found == SelectSeq(successfulAudits,
                           LAMBDA log : "vulnerabilitiesFound" \in DOMAIN log)
        emails == KeysInOrder([i \in DOMAIN logs |-> logs[i].userEmail])
        dates == KeysInOrder([i \in DOMAIN logs |-> DateOf(logs[i].timestamp)])
    IN [totalAudits |-> Len(logs),
        totalCreditsConsumed |-> SumCredits(logs),
        totalUsers |-> Cardinality({logs[i].userEmail : i \in DOMAIN logs}),
        successRate |-> SuccessRate(Len(successfulAudits), Len(logs)),
        averageAuditDuration |->
            IF Len(auditDurations) > 0
            THEN Ratio(SumSeq(auditDurations), Len(auditDurations)) ELSE Zero,
        vulnerabilityStats |->
            [totalVulnerabilities |->
                SumSeq([i \in DOMAIN found |-> found[i].vulnerabilitiesFound]),
             severityBreakdown |->
                [critical |-> SumSeq([i \in DOMAIN breakdowns |->
                                         breakdowns[i].severityBreakdown.critical]),
                 high |-> SumSeq([i \in DOMAIN breakdowns |->
                                     breakdowns[i].severityBreakdown.high]),
                 medium |-> SumSeq([i \in DOMAIN breakdowns |->
                                       breakdowns[i].severityBreakdown.medium]),
                 low |-> SumSeq([i \in DOMAIN breakdowns |->
                                    breakdowns[i].severityBreakdown.low])]],
        userStats |-> [i \in DOMAIN emails |-> UserStat(logs, emails[i])],
        dailyStats |-> [i \in DOMAIN dates |-> DailyStat(logs, dates[i])]]

generateStatistics(startDate, endDate) ==
    StatisticsOf(getAuditLogs(startDate, endDate, ""))

(***************************************************************************)
(* Business analytics                                                      *)
(***************************************************************************)
\* the logs of the calendar day of now, and of the day before
todayAudits(logs) ==
    {i \in DOMAIN logs : DateOf(logs[i].timestamp) = DateOf(now)}
yesterdayAudits(logs) ==
    {i \in DOMAIN logs : DateOf(logs[i].timestamp) = DateOf(now - DayLen)}

\* the logs of the last 7 days, and of the 7 days before them
thisWeekAudits(logs) ==
    {i \in DOMAIN logs : logs[i].timestamp >= now - 7 * DayLen}
lastWeekAudits(logs) ==
    {i \in DOMAIN logs : /\ logs[i].timestamp >= now - 14 * DayLen
                         /\ logs[i].timestamp < now - 7 * DayLen}

\* the logs of the last 30 days, and of the 30 days before them
thisMonthAudits(logs) ==
    {i \in DOMAIN logs : logs[i].timestamp >= now - 30 * DayLen}
lastMonthAudits(logs) ==
    {i \in DOMAIN logs : /\ logs[i].timestamp >= now - 60 * DayLen
                         /\ logs[i].timestamp < now - 30 * DayLen}

\* a growth rate without its test of the prior period
GrowthOf_Unguarded(current, prior) == Ratio((current - prior) * 100, prior)

\* ((current - prior) / prior) * 100, or 0 when the prior period is empty
GrowthOf(current, prior) ==
    IF prior > 0 THEN Ratio((current - prior) * 100, prior) ELSE Zero

calculateGrowthRate(logs) ==
    [daily |-> GrowthOf(Cardinality(todayAudits(logs)),
                        Cardinality(yesterdayAudits(logs))),
     weekly |-> GrowthOf(Cardinality(thisWeekAudits(logs)),
                         Cardinality(lastWeekAudits(logs))),
     monthly |-> GrowthOf(Cardinality(thisMonthAudits(logs)),
                          Cardinality(lastMonthAudits(logs)))]

\* the logs of the 30 days before now, which calculateMAU and
\* calculateUserSegmentation both keep
recentLogs(logs) == SelectSeq(logs, LAMBDA log : log.timestamp >= now - 30 * DayLen)

\* calculateMAU: the number of owners in the recent logs
calculateMAU(logs) ==
    LET recent == recentLogs(logs)
    IN Cardinality({recent[i].userEmail : i \in DOMAIN recent})

\* userAuditCounts: the Map from each owner of a recent log to the number
\* of their recent logs
userAuditCounts(logs) ==
    LET recent == recentLogs(logs)
    IN [u \in {recent[i].userEmail : i \in DOMAIN recent} |->
           Len(SelectSeq(recent, LAMBDA log : log.userEmail = u))]

\* the tiers with the power tier starting at 20 events
TierOf_PowerFrom20(count) ==
    IF count >= 20 THEN "power" ELSE IF count >= 5 THEN "regular" ELSE "light"

\* the branch of calculateUserSegmentation an owner's count takes
TierOf(count) ==
    IF count > 20 THEN "power" ELSE IF count >= 5 THEN "regular" ELSE "light"

calculateUserSegmentation(logs) ==
    LET counts == userAuditCounts(logs)
        of(tier) == Cardinality({u \in DOMAIN counts : TierOf(counts[u]) = tier})
    IN [powerUsers |-> of("power"), regularUsers |-> of("regular"),
        lightUsers |-> of("light")]

getRecentActivity(limit) ==
    LET completed == SelectSeq(inMemoryCache, IsCompletedAudit)
        last == IF limit = 0 THEN completed ELSE SliceLast(completed, limit)
    IN [i \in 1..Len(last) |-> last[Len(last) + 1 - i]]

(***************************************************************************)
(* The AuditReport collection                                              *)
(***************************************************************************)
\* findOne without its userEmail condition
findOne_AnyOwner(recs, id, userEmail) ==
    LET found == SelectSeq(recs, LAMBDA d : d._id = id)
    IN IF found = <<>> THEN <<>> ELSE <<found[1]>>

\* AuditReportModel.findOne({_id, userEmail}): <<>> for null
findOne(recs, id, userEmail) ==
    LET found == SelectSeq(recs, LAMBDA d : d._id = id /\ d.userEmail = userEmail)
    IN IF found = <<>> THEN <<>> ELSE <<found[1]>>

\* the document POST /api/audit creates: the schema drops preAuditScore and
\* postAuditScore, which it does not declare, and defaults isReAudit
OriginalDocument(id, userEmail, report, requestId, auditDuration) ==
    [_id |-> id, userEmail |-> userEmail,
     vulnerabilities |-> report.vulnerabilities, auditedAt |-> report.auditedAt,
     requestId |-> requestId, auditDuration |-> auditDuration,
     isReAudit |-> FALSE]

\* the document POST /api/audit/reaudit creates
ReAuditDocument(id, userEmail, report, requestId, auditDuration, originalAuditId) ==
    [_id |-> id, userEmail |-> userEmail,
     vulnerabilities |-> report.vulnerabilities, auditedAt |-> report.auditedAt,
     requestId |-> requestId, auditDuration |-> auditDuration,
     riskScore |-> calculateRiskScore(report.vulnerabilities),
     originalAuditId |-> originalAuditId, isReAudit |-> TRUE]

\* a write that takes the place of the document stored last
insertOne_OverLast(recs, doc) ==
    IF recs = <<>> THEN <<doc>> ELSE [recs EXCEPT ![Len(recs)] = doc]

\* the collection after AuditReportModel.create has stored doc
insertOne(recs, doc) == Append(recs, doc)

\* the sequences that hold every element of S once
Orderings(S) ==
    {f \in [1..Cardinality(S) -> S] : \A i, j \in DOMAIN f : i # j => f[i] # f[j]}

\* find(...).sort({auditedAt: -1}): the orders in which the documents of S
\* may come back, documents of one instant in any order
SortByAuditedAtDesc(S) ==
    {f \in Orderings(S) :
        \A i, j \in DOMAIN f : i < j => f[i].auditedAt >= f[j].auditedAt}

\* GET /api/audit/[id]/reaudit for reportId, asked by userEmail
chainOf(reportId, userEmail) ==
    LET report == findOne(records, reportId, userEmail)
    IN IF reportId = 0
       THEN [status |-> 400, originalAudit |-> <<>>, reAudits |-> {}]
       ELSE IF report = <<>>
       THEN [status |-> 404, originalAudit |-> <<>>, reAudits |-> {}]
       ELSE LET originalAuditId ==
                    IF report[1].isReAudit /\ "originalAuditId" \in DOMAIN report[1]
                    THEN report[1].originalAuditId
                    ELSE reportId
            IN [status |-> 200,
                originalAudit |-> findOne(records, originalAuditId, userEmail),
                reAudits |-> {d \in Range(records) :
                                 /\ d.isReAudit
                                 /\ d.userEmail = userEmail
                                 /\ "originalAuditId" \in DOMAIN d
                                 /\ d.originalAuditId = originalAuditId}]

(***************************************************************************)
(* Responses                                                               *)
(***************************************************************************)
ErrorResponse(status, error) == [status |-> status, error |-> error]

\* a response that passes the AuditError's message on
EngineFailureResponse_Leaky(route, err) == ErrorResponse(500, err.message)

\* the response to a failed engine call, whatever the AuditError
EngineFailureResponse(route, err) ==
    IF route = "audit"
    THEN ErrorResponse(500, "Failed to audit smart contract. Please try again later.")
    ELSE ErrorResponse(500, "Failed to audit improved contract. Please try again later.")

UnexpectedResponse ==
    ErrorResponse(500, "An unexpected error occurred. Please try again later.")

SuccessResponse(report, requestId) ==
    [status |-> 200, success |-> TRUE, data |-> report, requestId |-> requestId]

\* n / d rounded to the nearest integer, halves away from zero, for d > 0
RoundDiv(n, d) ==
    IF n >= 0 THEN (2 * n + d) \div (2 * d) ELSE 0 - ((d - 2 * n) \div (2 * d))

\* (a / b * 100).toFixed(1): a number in tenths, or the text toFixed gives
\* for the NaN and the infinities a division by zero produces
PercentToFixed1(a, b) ==
    IF b # 0 THEN [kind |-> "number", tenths |-> RoundDiv(a * 1000, b)]
    ELSE IF a = 0 THEN [kind |-> "NaN", tenths |-> 0]
    ELSE IF a > 0 THEN [kind |-> "Infinity", tenths |-> 0]
    ELSE [kind |-> "-Infinity", tenths |-> 0]

\* metadata.improvement of a saved re-audit: <<>> for null
Improvement(originalAudit, riskScore) ==
    IF "riskScore" \in DOMAIN originalAudit
    THEN <<PercentToFixed1(originalAudit.riskScore - riskScore, originalAudit.riskScore)>>
    ELSE <<>>

\* the response of POST /api/audit to a successful audit, saved or not
AuditSuccessResponse(report, requestId) ==
    SuccessResponse(report, requestId)
    @@ [metadata |-> [postAuditScore |-> calculatePostAuditScore(report.vulnerabilities)]]

\* the response of POST /api/audit/reaudit once the re-audit is saved
ReAuditSavedResponse(report, requestId, originalAudit, reAuditId) ==
    LET riskScore == calculateRiskScore(report.vulnerabilities)
    IN SuccessResponse(report, requestId)
       @@ [reAuditId |-> reAuditId,
           metadata |-> [riskScore |-> riskScore,
                         improvement |-> Improvement(originalAudit, riskScore),
                         newRiskScore |-> riskScore]]

\* the response of POST /api/audit/reaudit when the save has failed
ReAuditUnsavedResponse(report, requestId) ==
    SuccessResponse(report, requestId)
    @@ [metadata |-> [riskScore |-> calculateRiskScore(report.vulnerabilities)]]

(***************************************************************************)
(* GET /api/analytics/stats                                                *)
(***************************************************************************)
\* the documents find(dateQuery) matches: auditedAt from the start of
\* startDate to the end of endDate, NoDate for a parameter left out
InDateRange(d, startDate, endDate) ==
    /\ (startDate = NoDate \/ d.auditedAt >= startDate * DayLen)
    /\ (endDate = NoDate \/ d.auditedAt <= endDate * DayLen + DayLen - 1)

\* the orders in which find(dateQuery), which asks for no order, may
\* return the matching documents
AuditReportModel_find(startDate, endDate) ==
    Orderings({d \in Range(records) : InDateRange(d, startDate, endDate)})

\* the originals the pre-audit average is taken over
initialAudits(reports) ==
    SelectSeq(reports, LAMBDA r : ~r.isReAudit /\ "riskScore" \in DOMAIN r)

\* the re-audits the post-audit average is taken over
allReAudits(reports) ==
    SelectSeq(reports, LAMBDA r : /\ r.isReAudit /\ "riskScore" \in DOMAIN r
                                  /\ "originalAuditId" \in DOMAIN r)

\* a test that keeps the re-audit met first
IsMoreRecent_Never(reAudit, existing) == FALSE

\* new Date(reAudit.auditedAt) > new Date(existing.auditedAt)
IsMoreRecent(reAudit, existing) == reAudit.auditedAt > existing.auditedAt

RECURSIVE reAuditsByOriginal(_)
\* the Map from each original's id to one of its re-audits: a re-audit
\* replaces the one kept so far when its auditedAt is later
reAuditsByOriginal(reAudits) ==
    IF reAudits = <<>> THEN <<>>
    ELSE LET kept == reAuditsByOriginal(SubSeq(reAudits, 1, Len(reAudits) - 1))
             reAudit == reAudits[Len(reAudits)]
             originalId == reAudit.originalAuditId
         IN IF originalId \notin DOMAIN kept
            THEN kept @@ (originalId :> reAudit)
            ELSE IF IsMoreRecent(reAudit, kept[originalId])
            THEN [kept EXCEPT ![originalId] = reAudit]
            ELSE kept

\* the sum of the risk scores of the documents of a Map or an array
RECURSIVE SumRiskScores(_)
SumRiskScores(docs) ==
    IF DOMAIN docs = {} THEN 0
    ELSE LET k == CHOOSE k \in DOMAIN docs : TRUE
         IN docs[k].riskScore
            + SumRiskScores([j \in DOMAIN docs \ {k} |-> docs[j]])

\* Math.round(sum / n * 10) / 10 in tenths, or 0 when n is 0
AverageInTenths(sum, n) == IF n > 0 THEN RoundDiv(sum * 10, n) ELSE 0

\* the average of the risk scores of the re-audits kept, in tenths
averagePostAuditScore(reports) ==
    LET lastReAudits == reAuditsByOriginal(allReAudits(reports))
    IN AverageInTenths(SumRiskScores(lastReAudits), Cardinality(DOMAIN lastReAudits))

\* the rows of userStats: one per owner, sorted by auditCount descending,
\* owners of one count in the order of their first report
ReportUserStats(reports) ==
    LET emails == KeysInOrder([i \in DOMAIN reports |-> reports[i].userEmail])
        row(email) ==
            LET own == SelectSeq(reports, LAMBDA r : r.userEmail = email)
            IN [email |-> email, auditCount |-> Len(own), creditsConsumed |-> Len(own),
                lastAudit |-> (CHOOSE t \in {own[i].auditedAt : i \in DOMAIN own} :
                                  \A i \in DOMAIN own : own[i].auditedAt <= t)]
        rows == [i \in DOMAIN emails |-> row(emails[i])]
        order == CHOOSE f \in Orderings(DOMAIN rows) :
                    \A i, j \in DOMAIN f :
                       i < j => \/ rows[f[i]].auditCount > rows[f[j]].auditCount
                                \/ /\ rows[f[i]].auditCount = rows[f[j]].auditCount
                                   /\ f[i] < f[j]
    IN [i \in DOMAIN rows |-> rows[order[i]]]

\* the rows of dailyStats: one per date, sorted by date ascending
ReportDailyStats(reports) ==
    LET dates == {DateOf(reports[i].auditedAt) : i \in DOMAIN reports}
        row(date) ==
            LET n == Cardinality({i \in DOMAIN reports :
                                     DateOf(reports[i].auditedAt) = date})
            IN [date |-> date, auditCount |-> n, creditsConsumed |-> n]
        order == CHOOSE f \in Orderings(dates) :
                    \A i, j \in DOMAIN f : i < j => f[i] < f[j]
    IN [i \in DOMAIN order |-> row(order[i])]

\* the data GET /api/analytics/stats answers with when find returns reports;
\* the two average scores are in tenths
StatsOfReports(reports) ==
    LET durations == SelectSeq(reports, LAMBDA r : r.auditDuration # 0)
        count(sev) == SumSeq([i \in DOMAIN reports |->
                                 CountSev(reports[i].vulnerabilities, sev)])
    IN [totalAudits |-> Len(reports),
        totalCreditsConsumed |-> Len(reports),
        totalUsers |-> Cardinality({reports[i].userEmail : i \in DOMAIN reports}),
        averagePreAuditScore |->
            AverageInTenths(SumRiskScores(initialAudits(reports)),
                            Len(initialAudits(reports))),
        averagePostAuditScore |-> averagePostAuditScore(reports),
        averageAuditDuration |->
            IF Len(durations) > 0
            THEN RoundDiv(SumSeq([i \in DOMAIN durations |-> durations[i].auditDuration]),
                          Len(durations))
            ELSE 0,
        vulnerabilityStats |->
            [totalVulnerabilities |->
                SumSeq([i \in DOMAIN reports |-> Len(reports[i].vulnerabilities)]),
             severityBreakdown |->
                [critical |-> count("CRITICAL"), high |-> count("HIGH"),
                 medium |-> count("MEDIUM"), low |-> count("LOW")]],
        userStats |-> ReportUserStats(reports),
        dailyStats |-> ReportDailyStats(reports)]

(***************************************************************************)
(* Requests                                                                *)
(***************************************************************************)
IdleReq ==
    [route |-> "", userEmail |-> "", code |-> UndefinedCode,
     originalAuditId |-> 0, startTime |-> 0, logId |-> 0, auditDuration |-> 0,
     entry |-> <<>>, errEntry |-> <<>>, after |-> "", err |-> <<>>,
     dataVulnerabilities |-> <<>>,
     report |-> <<>>, originalAudit |-> <<>>, resp |-> <<>>,
     engineCalled |-> FALSE, lookupFailed |-> FALSE, dbFailed |-> FALSE]

Bodies ==
    {[parsed |-> FALSE, contractCode |-> UndefinedCode, originalAuditId |-> 0]}
    \cup {[parsed |-> TRUE, contractCode |-> c, originalAuditId |-> 0] : c \in CodeInputs}

\* ids a caller may name: 0 is not an ObjectId, the others are well formed
AuditIds == 0..MaxRequests
ReAuditBodies ==
    {[parsed |-> FALSE, contractCode |-> UndefinedCode, originalAuditId |-> 0]}
    \cup {[parsed |-> TRUE, contractCode |-> c, originalAuditId |-> i] :
             c \in CodeInputs, i \in AuditIds}

InFlight == {r \in Reqs : pc[r] \notin {"idle", "done"}}

\* a process that has just constructed its Logger, over an empty collection
InitFresh ==
    /\ isProduction \in BOOLEAN
    /\ now = 0
    /\ inMemoryCache = <<>>
    /\ auditFiles = [d \in Days |-> <<>>]
    /\ errorFiles = [d \in Days |-> <<>>]
    /\ records = <<>>
    /\ pc = [r \in Reqs |-> "idle"]
    /\ req = [r \in Reqs |-> IdleReq]
    /\ nextReq = 0
    /\ nextLogId = 0
    /\ faults = 0
    /\ pushed = <<>>
    /\ failedAppends = {}

\* the collection after an earlier process has stored one audit of each
\* owner (request id 0 stands for the requests of that process)
EarlierAudits ==
    <<OriginalDocument(1, "alice@energi.team",
                       [vulnerabilities |-> <<"HIGH">>, auditedAt |-> 0], 0, 0),
      OriginalDocument(2, "bob@energi.team",
                       [vulnerabilities |-> <<>>, auditedAt |-> 0], 0, 0)>>

\* a process that has just constructed its Logger, over the collection an
\* earlier process has left
Init ==
    /\ isProduction \in BOOLEAN
    /\ now = 0
    /\ inMemoryCache = <<>>
    /\ auditFiles = [d \in Days |-> <<>>]
    /\ errorFiles = [d \in Days |-> <<>>]
    /\ records = EarlierAudits
    /\ pc = [r \in Reqs |-> "idle"]
    /\ req = [r \in Reqs |-> IdleReq]
    /\ nextReq = 0
    /\ nextLogId = 0
    /\ faults = 0
    /\ pushed = <<>>
    /\ failedAppends = {}

\* time passes between two steps of the event loop
Tick ==
    /\ now < MaxTime
    /\ now' = now + 1
    /\ UNCHANGED <<isProduction, inMemoryCache, auditFiles, errorFiles, records,
                   pc, req, nextReq, nextLogId, faults, pushed, failedAppends>>

\* the last instant at which the analytics are looked at: 60 days and one
\* more after the last audit
LastLook == MaxTime + 61 * DayLen

\* time passes while no request is in flight
IdleTick ==
    /\ InFlight = {}
    /\ now < LastLook
    /\ now' = now + 1
    /\ UNCHANGED <<isProduction, inMemoryCache, auditFiles, errorFiles, records,
                   pc, req, nextReq, nextLogId, faults, pushed, failedAppends>>

\* the audit file of day d gets a line that is not JSON
CorruptLine(d) ==
    /\ CanFail
    /\ faults' = faults + 1
    /\ auditFiles' = [auditFiles EXCEPT ![d] = Append(@, MalformedLine)]
    /\ UNCHANGED <<isProduction, now, inMemoryCache, errorFiles, records,
                   pc, req, nextReq, nextLogId, pushed, failedAppends>>

\* the request calls logger.logError and, once the write is over, either
\* responds with resp or goes on to logAuditComplete
CallLogError(r, base, errorType, errorMessage, userEmail, after, resp) ==
    /\ req' = [req EXCEPT ![r] =
                 [base EXCEPT
                    !.errEntry = <<logError(nextLogId + 1, now, errorType,
                                            errorMessage, userEmail, r)>>,
                    !.after = after, !.resp = resp]]
    /\ nextLogId' = nextLogId + 1
    /\ pc' = [pc EXCEPT ![r] = "logError"]

\* the request calls logger.logAuditStart
CallLogAuditStart(r, base) ==
    /\ req' = [req EXCEPT ![r] =
                 [base EXCEPT
                    !.logId = nextLogId + 1,
                    !.entry = <<logAuditStart(nextLogId + 1, now, base.userEmail,
                                              base.code.length, r)>>]]
    /\ nextLogId' = nextLogId + 1
    /\ pc' = [pc EXCEPT ![r] = "logStart"]

\* the request returns resp
Respond(r, base, resp) ==
    /\ req' = [req EXCEPT ![r] = [base EXCEPT !.resp = <<resp>>]]
    /\ pc' = [pc EXCEPT ![r] = "done"]

\* POST /api/audit up to its first await of a write
AuditPOST(r, session, body) ==
    /\ pc[r] = "idle" /\ r = nextReq + 1
    /\ nextReq' = r
    /\ LET base == [IdleReq EXCEPT !.route = "audit", !.startTime = now,
                                   !.code = body.contractCode]
           user == [base EXCEPT !.userEmail = session]
       IN IF session = NoSession
          THEN CallLogError(r, base, "UNAUTHORIZED_ACCESS",
                            "Audit attempt without valid session", "", "respond",
                            <<ErrorResponse(401, "Authentication required")>>)
          ELSE IF ~endsWithAllowedDomain(session)
          THEN CallLogError(r, user, "DOMAIN_RESTRICTION",
                            "Audit attempt from unauthorized domain", session,
                            "respond",
                            <<ErrorResponse(403, "Access denied: Invalid email domain")>>)
          ELSE IF ~body.parsed
          THEN CallLogError(r, user, "INVALID_REQUEST_BODY",
                            "Failed to parse request body", session, "respond",
                            <<ErrorResponse(400, "Invalid request body")>>)
          ELSE IF ~body.contractCode.defined
          THEN CallLogError(r, user, "UNEXPECTED_ERROR", "TypeError", "",
                            "respond", <<UnexpectedResponse>>)
          ELSE CallLogAuditStart(r, user)
    /\ UNCHANGED <<isProduction, now, inMemoryCache, auditFiles, errorFiles,
                   records, faults, pushed, failedAppends>>

\* POST /api/audit/reaudit up to its await of the database
ReAuditPOST(r, session, body) ==
    /\ pc[r] = "idle" /\ r = nextReq + 1
    /\ nextReq' = r
    /\ LET base == [IdleReq EXCEPT !.route = "reaudit", !.startTime = now,
                                   !.code = body.contractCode,
                                   !.originalAuditId = body.originalAuditId]
           user == [base EXCEPT !.userEmail = session]
       IN IF session = NoSession
          THEN /\ Respond(r, base, ErrorResponse(401, "Authentication required"))
               /\ UNCHANGED nextLogId
          ELSE IF ~endsWithAllowedDomain(session)
          THEN /\ Respond(r, user, ErrorResponse(403, "Access denied: Invalid email domain"))
               /\ UNCHANGED nextLogId
          ELSE IF ~body.parsed
          THEN /\ Respond(r, user, ErrorResponse(400, "Invalid request body"))
               /\ UNCHANGED nextLogId
          ELSE IF ~body.contractCode.defined
          THEN CallLogError(r, user, "UNEXPECTED_ERROR", "TypeError", "",
                            "respond", <<UnexpectedResponse>>)
          ELSE IF body.contractCode.trimLength = 0
          THEN /\ Respond(r, user, ErrorResponse(400, "Improved contract code is required"))
               /\ UNCHANGED nextLogId
          ELSE /\ req' = [req EXCEPT ![r] = user]
               /\ pc' = [pc EXCEPT ![r] = "findOne"]
               /\ UNCHANGED nextLogId
    /\ UNCHANGED <<isProduction, now, inMemoryCache, auditFiles, errorFiles,
                   records, faults, pushed, failedAppends>>

\* the look-up of a re-audit that logs the start of the audit before it
\* answers 404
ReAuditPOST_FindOne_StartFirst(r, ok) ==
    /\ pc[r] = "findOne"
    /\ LET cur == req[r]
           originalAudit == findOne(records, cur.originalAuditId, cur.userEmail)
           entry == logAuditStart(nextLogId + 1, now, cur.userEmail, cur.code.length, r)
       IN IF ~ok \/ cur.originalAuditId = 0
          THEN /\ CallLogError(r, [cur EXCEPT !.lookupFailed = TRUE],
                               "UNEXPECTED_ERROR", "database error", "",
                               "respond", <<UnexpectedResponse>>)
               /\ UNCHANGED <<inMemoryCache, pushed>>
          ELSE IF originalAudit = <<>>
          THEN /\ Respond(r, cur, ErrorResponse(404, "Original audit not found or access denied"))
               /\ inMemoryCache' = addToCache(inMemoryCache, entry)
               /\ pushed' = Append(pushed, entry)
               /\ nextLogId' = nextLogId + 1
          ELSE /\ CallLogAuditStart(r, [cur EXCEPT !.originalAudit = originalAudit])
               /\ UNCHANGED <<inMemoryCache, pushed>>
    /\ faults' = IF ok THEN faults ELSE faults + 1
    /\ UNCHANGED <<isProduction, now, auditFiles, errorFiles,
                   records, nextReq, failedAppends>>

\* POST /api/audit/reaudit: connectDB and findOne come back; ok is FALSE
\* when either throws (no connection, or an id that is not an ObjectId)
ReAuditPOST_FindOne(r, ok) ==
    /\ pc[r] = "findOne"
    /\ LET cur == req[r]
           originalAudit == findOne(records, cur.originalAuditId, cur.userEmail)
       IN IF ~ok \/ cur.originalAuditId = 0
          THEN CallLogError(r, [cur EXCEPT !.lookupFailed = TRUE],
                            "UNEXPECTED_ERROR", "database error", "",
                            "respond", <<UnexpectedResponse>>)
          ELSE IF originalAudit = <<>>
          THEN /\ Respond(r, cur, ErrorResponse(404, "Original audit not found or access denied"))
               /\ UNCHANGED nextLogId
          ELSE CallLogAuditStart(r, [cur EXCEPT !.originalAudit = originalAudit])
    /\ faults' = IF ok THEN faults ELSE faults + 1
    /\ UNCHANGED <<isProduction, now, inMemoryCache, auditFiles, errorFiles,
                   records, nextReq, pushed, failedAppends>>

\* the catch block of both workflows around auditSmartContract
CatchAuditError(r, base, err) ==
    CallLogError(r, [base EXCEPT !.err = <<err>>, !.auditDuration = now - base.startTime],
                 err.code, err.message, base.userEmail, "logComplete", <<>>)

\* logAuditStart after its file write: the entry goes to the cache, the
\* workflow gets the id and enters auditSmartContract, which validates the
\* text and reads the API key before it calls the engine
LogAuditStart_Written(r, ok, apiKey) ==
    /\ pc[r] = "logStart"
    /\ LET cur == req[r]
           entry == cur.entry[1]
           valid == validateContractCode(cur.code)
           base == [cur EXCEPT !.entry = <<>>]
       IN /\ auditFiles' = appendToFile(auditFiles, DateOf(entry.timestamp), entry, ok)
          /\ inMemoryCache' = addToCache(inMemoryCache, entry)
          /\ pushed' = Append(pushed, entry)
          /\ failedAppends' = IF ok THEN failedAppends ELSE failedAppends \cup {entry}
          /\ IF valid # "ok"
             THEN CatchAuditError(r, base, ValidationError(valid))
             ELSE IF ~apiKey
             THEN CatchAuditError(r, base,
                     [code |-> "MISSING_API_KEY",
                      message |-> "Missing CHAINGPT_API_KEY in environment variables"])
             ELSE /\ req' = [req EXCEPT ![r] = [base EXCEPT !.engineCalled = TRUE]]
                  /\ pc' = [pc EXCEPT ![r] = "engine"]
                  /\ UNCHANGED nextLogId
    /\ faults' = IF ok THEN faults ELSE faults + 1
    /\ UNCHANGED <<isProduction, now, errorFiles, records, nextReq>>

\* the request calls logger.logAuditComplete
CallLogAuditComplete(r, base, success, vulns, errorMessage) ==
    /\ req' = [req EXCEPT ![r] =
                 [base EXCEPT
                    !.entry = <<logAuditComplete(base.logId, now, base.userEmail,
                                                 base.code.length, success,
                                                 base.auditDuration, vulns,
                                                 errorMessage, r)>>]]
    /\ pc' = [pc EXCEPT ![r] = "logComplete"]

\* the engine call of auditSmartContract comes back
AuditSmartContract_Return(r, outcome) ==
    /\ pc[r] = "engine"
    /\ LET cur == req[r]
           report == [vulnerabilities |-> ParseVulnerabilities(outcome),
                      auditedAt |-> now]
       IN IF ~outcome.ok
          THEN CatchAuditError(r, cur, ClassifyEngineError(outcome.cause))
          ELSE /\ CallLogAuditComplete(r, [cur EXCEPT !.report = <<report>>,
                                                     !.dataVulnerabilities =
                                                         DataVulnerabilities(outcome),
                                                     !.auditDuration = now - cur.startTime],
                                       TRUE, <<report.vulnerabilities>>, "")
               /\ UNCHANGED nextLogId
    /\ UNCHANGED <<isProduction, now, inMemoryCache, auditFiles, errorFiles,
                   records, nextReq, faults, pushed, failedAppends>>

\* logError after its file write, in a catch block that returns without
\* calling logAuditComplete
LogError_Written_NoComplete(r, ok) ==
    /\ pc[r] = "logError"
    /\ LET cur == req[r]
           entry == cur.errEntry[1]
           base == [cur EXCEPT !.errEntry = <<>>]
       IN /\ errorFiles' = appendToFile(errorFiles, DateOf(entry.timestamp), entry, ok)
          /\ IF cur.after = "respond"
             THEN /\ req' = [req EXCEPT ![r] = base]
                  /\ pc' = [pc EXCEPT ![r] = "done"]
             ELSE Respond(r, base, EngineFailureResponse(cur.route, cur.err[1]))
    /\ faults' = IF ok THEN faults ELSE faults + 1
    /\ UNCHANGED <<isProduction, now, inMemoryCache, auditFiles, records,
                   nextReq, nextLogId, pushed, failedAppends>>

\* logError after its file write
LogError_Written(r, ok) ==
    /\ pc[r] = "logError"
    /\ LET cur == req[r]
           entry == cur.errEntry[1]
           base == [cur EXCEPT !.errEntry = <<>>]
       IN /\ errorFiles' = appendToFile(errorFiles, DateOf(entry.timestamp), entry, ok)
          /\ IF cur.after = "respond"
             THEN /\ req' = [req EXCEPT ![r] = base]
                  /\ pc' = [pc EXCEPT ![r] = "done"]
             ELSE CallLogAuditComplete(r, base, FALSE, <<>>, cur.err[1].message)
    /\ faults' = IF ok THEN faults ELSE faults + 1
    /\ UNCHANGED <<isProduction, now, inMemoryCache, auditFiles, records,
                   nextReq, nextLogId, pushed, failedAppends>>

\* logAuditComplete losing the entry whose file write fails
LogAuditComplete_Written_LostOnFailure(r, ok) ==
    /\ pc[r] = "logComplete"
    /\ LET cur == req[r]
           entry == cur.entry[1]
           base == [cur EXCEPT !.entry = <<>>]
       IN /\ auditFiles' = appendToFile(auditFiles, DateOf(entry.timestamp), entry, ok)
          /\ inMemoryCache' = IF ok THEN addToCache(inMemoryCache, entry) ELSE inMemoryCache
          /\ pushed' = IF ok THEN Append(pushed, entry) ELSE pushed
          /\ failedAppends' = IF ok THEN failedAppends ELSE failedAppends \cup {entry}
          /\ IF entry.success
             THEN /\ req' = [req EXCEPT ![r] = base]
                  /\ pc' = [pc EXCEPT ![r] = "create"]
             ELSE Respond(r, base, EngineFailureResponse(cur.route, cur.err[1]))
    /\ faults' = IF ok THEN faults ELSE faults + 1
    /\ UNCHANGED <<isProduction, now, errorFiles, records, nextReq, nextLogId>>

\* logAuditComplete after its file write: the entry goes to the cache; a
\* failed audit is answered, a successful one goes on to save its report
LogAuditComplete_Written(r, ok) ==
    /\ pc[r] = "logComplete"
    /\ LET cur == req[r]
           entry == cur.entry[1]
           base == [cur EXCEPT !.entry = <<>>]
       IN /\ auditFiles' = appendToFile(auditFiles, DateOf(entry.timestamp), entry, ok)
          /\ inMemoryCache' = addToCache(inMemoryCache, entry)
          /\ pushed' = Append(pushed, entry)
          /\ failedAppends' = IF ok THEN failedAppends ELSE failedAppends \cup {entry}
          /\ IF entry.success
             THEN /\ req' = [req EXCEPT ![r] = base]
                  /\ pc' = [pc EXCEPT ![r] = "create"]
             ELSE Respond(r, base, EngineFailureResponse(cur.route, cur.err[1]))
    /\ faults' = IF ok THEN faults ELSE faults + 1
    /\ UNCHANGED <<isProduction, now, errorFiles, records, nextReq, nextLogId>>

\* AuditReportModel.create without the try around it: a failure reaches the
\* outer catch block
AuditReportModel_Create_Uncaught(r, ok) ==
    /\ pc[r] = "create"
    /\ LET cur == req[r]
           report == cur.report[1]
           id == Len(records) + 1
           doc == IF cur.route = "audit"
                  THEN OriginalDocument(id, cur.userEmail, report, r, cur.auditDuration)
                  ELSE ReAuditDocument(id, cur.userEmail, report, r, cur.auditDuration,
                                       cur.originalAuditId)
           saved == IF cur.route = "audit" THEN AuditSuccessResponse(report, r)
                    ELSE ReAuditSavedResponse(report, r, cur.originalAudit[1], id)
           unsaved == IF cur.route = "audit" THEN AuditSuccessResponse(report, r)
                      ELSE ReAuditUnsavedResponse(report, r)
       IN IF ok
          THEN /\ records' = insertOne(records, doc)
               /\ Respond(r, cur, saved)
               /\ UNCHANGED nextLogId
          ELSE /\ records' = records
               /\ CallLogError(r, [cur EXCEPT !.dbFailed = TRUE], "UNEXPECTED_ERROR",
                               "database error", "", "respond", <<UnexpectedResponse>>)
    /\ faults' = IF ok THEN faults ELSE faults + 1
    /\ UNCHANGED <<isProduction, now, inMemoryCache, auditFiles, errorFiles,
                   nextReq, pushed, failedAppends>>

\* AuditReportModel.create comes back: the document is stored, or the
\* failure is logged; either way the report is returned
AuditReportModel_Create(r, ok) ==
    /\ pc[r] = "create"
    /\ LET cur == req[r]
           report == cur.report[1]
           id == Len(records) + 1
           doc == IF cur.route = "audit"
                  THEN OriginalDocument(id, cur.userEmail, report, r, cur.auditDuration)
                  ELSE ReAuditDocument(id, cur.userEmail, report, r, cur.auditDuration,
                                       cur.originalAuditId)
           saved == IF cur.route = "audit" THEN AuditSuccessResponse(report, r)
                    ELSE ReAuditSavedResponse(report, r, cur.originalAudit[1], id)
           unsaved == IF cur.route = "audit" THEN AuditSuccessResponse(report, r)
                      ELSE ReAuditUnsavedResponse(report, r)
       IN IF ok
          THEN /\ records' = insertOne(records, doc)
               /\ Respond(r, cur, saved)
               /\ UNCHANGED nextLogId
          ELSE /\ records' = records
               /\ CallLogError(r, [cur EXCEPT !.dbFailed = TRUE], "DATABASE_ERROR",
                               "Failed to save audit report to MongoDB",
                               cur.userEmail, "respond", <<unsaved>>)
    /\ faults' = IF ok THEN faults ELSE faults + 1
    /\ UNCHANGED <<isProduction, now, inMemoryCache, auditFiles, errorFiles,
                   nextReq, pushed, failedAppends>>

(***************************************************************************)
(* The workflows under every kind of input, engine outcome and storage     *)
(* fault, WorkflowRequests requests one after the other, over the          *)
(* collection an earlier process has left.                                 *)
(***************************************************************************)
WReqs == 1..WorkflowRequests
WorkflowSessions == {NoSession, "eve@other.org", "alice@energi.team"}

Next ==
    \/ \E r \in WReqs, session \in WorkflowSessions, body \in Bodies :
          InFlight = {} /\ AuditPOST(r, session, body)
    \/ \E r \in WReqs, session \in WorkflowSessions, body \in ReAuditBodies :
          InFlight = {} /\ ReAuditPOST(r, session, body)
    \/ \E r \in Reqs, ok \in Outcomes : ReAuditPOST_FindOne(r, ok)
    \/ \E r \in Reqs, ok \in Outcomes, apiKey \in BOOLEAN :
          LogAuditStart_Written(r, ok, apiKey)
    \/ \E r \in Reqs, outcome \in EngineOutcomes : AuditSmartContract_Return(r, outcome)
    \/ \E r \in Reqs, ok \in Outcomes : LogError_Written(r, ok)
    \/ \E r \in Reqs, ok \in Outcomes : LogAuditComplete_Written(r, ok)
    \/ \E r \in Reqs, ok \in Outcomes : AuditReportModel_Create(r, ok)

Spec == Init /\ [][Next]_vars

(***************************************************************************)
(* Chains: MaxRequests audits and re-audits of stored records by the       *)
(* owners, one after the other, every audit successful, while time passes  *)
(* between the requests.                                                   *)
(***************************************************************************)
ValidBodies == {b \in Bodies : b.parsed /\ validateContractCode(b.contractCode) = "ok"}
\* re-audits of stored records, the caller's or not
ValidReAuditBodies ==
    {b \in ReAuditBodies : b.parsed /\ validateContractCode(b.contractCode) = "ok"
                           /\ b.originalAuditId \in 1..Len(records)}
SuccessOutcomes == {o \in EngineOutcomes : o.ok /\ o.cause = "parsed"}

NextChain ==
    \/ InFlight = {} /\ Tick
    \/ \E r \in Reqs, session \in Owners, body \in ValidBodies :
          InFlight = {} /\ AuditPOST(r, session, body)
    \/ \E r \in Reqs, session \in Owners, body \in ValidReAuditBodies :
          InFlight = {} /\ ReAuditPOST(r, session, body)
    \/ \E r \in Reqs : ReAuditPOST_FindOne(r, TRUE)
    \/ \E r \in Reqs : LogAuditStart_Written(r, TRUE, TRUE)
    \/ \E r \in Reqs, outcome \in SuccessOutcomes : AuditSmartContract_Return(r, outcome)
    \/ \E r \in Reqs : LogAuditComplete_Written(r, TRUE)
    \/ \E r \in Reqs : AuditReportModel_Create(r, TRUE)

SpecChain == InitFresh /\ [][NextChain]_vars

(***************************************************************************)
(* The cache under concurrent appends: BufferRequests audits of one owner, *)
(* all in flight together within one clock reading, succeeding or failing. *)
(***************************************************************************)
BReqs == 1..BufferRequests
BufferOutcomes == {o \in EngineOutcomes : o.cause \in {"429", "unparseable"}}

NextBuffer ==
    \/ \E r \in BReqs, body \in ValidBodies : AuditPOST(r, "alice@energi.team", body)
    \/ \E r \in Reqs : LogAuditStart_Written(r, TRUE, TRUE)
    \/ \E r \in Reqs, outcome \in BufferOutcomes : AuditSmartContract_Return(r, outcome)
    \/ \E r \in Reqs : LogError_Written(r, TRUE)
    \/ \E r \in Reqs : LogAuditComplete_Written(r, TRUE)
    \/ \E r \in Reqs : AuditReportModel_Create(r, TRUE)

SpecBuffer == InitFresh /\ [][NextBuffer]_vars

(***************************************************************************)
(* The logger while time passes: BufferRequests successful audits of one   *)
(* owner, all in flight together, over files that may get a line that is   *)
(* not JSON.                                                               *)
(***************************************************************************)
TimedOutcomes == {o \in EngineOutcomes : o.cause = "unparseable"}

NextTimed ==
    \/ Tick
    \/ \E d \in Days : CorruptLine(d)
    \/ \E r \in BReqs, body \in ValidBodies : AuditPOST(r, "alice@energi.team", body)
    \/ \E r \in Reqs : LogAuditStart_Written(r, TRUE, TRUE)
    \/ \E r \in Reqs, outcome \in TimedOutcomes : AuditSmartContract_Return(r, outcome)
    \/ \E r \in Reqs : LogAuditComplete_Written(r, TRUE)
    \/ \E r \in Reqs : AuditReportModel_Create(r, TRUE)

SpecTimed == InitFresh /\ [][NextTimed]_vars

(***************************************************************************)
(* Statistics: MaxRequests audits of the owners, one after the other,      *)
(* with findings or refused by the engine, while time passes between the   *)
(* requests.                                                               *)
(***************************************************************************)
StatsOutcomes ==
    {o \in EngineOutcomes : o.cause = "429" \/ (o.cause = "parsed" /\ o.raw # <<>>)}

NextStats ==
    \/ InFlight = {} /\ Tick
    \/ \E r \in Reqs, session \in Owners, body \in ValidBodies :
          InFlight = {} /\ AuditPOST(r, session, body)
    \/ \E r \in Reqs : LogAuditStart_Written(r, TRUE, TRUE)
    \/ \E r \in Reqs, outcome \in StatsOutcomes : AuditSmartContract_Return(r, outcome)
    \/ \E r \in Reqs : LogError_Written(r, TRUE)
    \/ \E r \in Reqs : LogAuditComplete_Written(r, TRUE)
    \/ \E r \in Reqs : AuditReportModel_Create(r, TRUE)

SpecStats == InitFresh /\ [][NextStats]_vars

(***************************************************************************)
(* Growth: MaxRequests successful audits of one owner, one after the       *)
(* other up to MaxTime, looked at for the two months that follow.          *)
(***************************************************************************)
NextGrowth ==
    \/ IdleTick
    \/ \E r \in Reqs, body \in ValidBodies :
          InFlight = {} /\ now <= MaxTime /\ AuditPOST(r, "alice@energi.team", body)
    \/ \E r \in Reqs : LogAuditStart_Written(r, TRUE, TRUE)
    \/ \E r \in Reqs, outcome \in TimedOutcomes : AuditSmartContract_Return(r, outcome)
    \/ \E r \in Reqs : LogAuditComplete_Written(r, TRUE)
    \/ \E r \in Reqs : AuditReportModel_Create(r, TRUE)

SpecGrowth == InitFresh /\ [][NextGrowth]_vars

(***************************************************************************)
(* Segments: a process started over the log files an earlier process has   *)
(* left, in which each owner has on each day a number of audits at or next *)
(* to the limits of the tiers, looked at for the two months that follow.   *)
(***************************************************************************)
\* the numbers of audits alice may have on one day, and bob
AliceCounts == {c \in 0..MaxPerDay : c \in {0, 4, 5, 20} \/ c > 20}
BobCounts == {0, 5}

\* the entry an earlier process has written for an audit of userEmail
EarlierLog(id, timestamp, userEmail) ==
    logAuditComplete(id, timestamp, userEmail, 1, TRUE, 0, <<>>, "", 0)

\* the file of day d with a audits of alice followed by b audits of bob
EarlierFile(d, a, b) ==
    [i \in 1..(a + b) |->
        EarlierLog(d * 2 * (MaxPerDay + 1) + i, d * DayLen,
                   IF i <= a THEN "alice@energi.team" ELSE "bob@energi.team")]

InitSegments ==
    /\ isProduction = FALSE
    /\ now = 0
    /\ inMemoryCache = <<>>
    /\ \E a \in [Days -> AliceCounts], b \in [Days -> BobCounts] :
          auditFiles = [d \in Days |-> EarlierFile(d, a[d], b[d])]
    /\ errorFiles = [d \in Days |-> <<>>]
    /\ records = <<>>
    /\ pc = [r \in Reqs |-> "idle"]
    /\ req = [r \in Reqs |-> IdleReq]
    /\ nextReq = 0
    /\ nextLogId = 0
    /\ faults = 0
    /\ pushed = <<>>
    /\ failedAppends = {}

NextSegments == IdleTick

SpecSegments == InitSegments /\ [][NextSegments]_vars

(***************************************************************************)
(* Reports: MaxRequests audits and re-audits of stored records by one      *)
(* owner, one after the other, every audit successful, while time passes   *)
(* between the requests.                                                   *)
(***************************************************************************)
InitReports == InitFresh /\ isProduction

NextReports ==
    \/ InFlight = {} /\ Tick
    \/ \E r \in Reqs, body \in ValidBodies :
          InFlight = {} /\ AuditPOST(r, "alice@energi.team", body)
    \/ \E r \in Reqs, body \in ValidReAuditBodies :
          InFlight = {} /\ ReAuditPOST(r, "alice@energi.team", body)
    \/ \E r \in Reqs : ReAuditPOST_FindOne(r, TRUE)
    \/ \E r \in Reqs : LogAuditStart_Written(r, TRUE, TRUE)
    \/ \E r \in Reqs, outcome \in SuccessOutcomes : AuditSmartContract_Return(r, outcome)
    \/ \E r \in Reqs : LogAuditComplete_Written(r, TRUE)
    \/ \E r \in Reqs : AuditReportModel_Create(r, TRUE)

SpecReports == InitReports /\ [][NextReports]_vars

(***************************************************************************)
(* Scores: one successful audit whose engine call returns any list of at   *)
(* most MaxFindings findings, labelled with a severity, an unknown label   *)
(* or no label.                                                            *)
(***************************************************************************)
ScoreLabels == Severities \cup {"SEV-X", ""}
ScoreFindings == UNION {[1..n -> ScoreLabels] : n \in 0..MaxFindings}
ScoreOutcomes == {[ok |-> TRUE, cause |-> "parsed", raw |-> f] : f \in ScoreFindings}

NextScore ==
    \/ \E body \in ValidBodies : AuditPOST(1, "alice@energi.team", body)
    \/ \E r \in Reqs : LogAuditStart_Written(r, TRUE, TRUE)
    \/ \E r \in Reqs :
          pc[r] = "engine" /\ \E outcome \in ScoreOutcomes :
                                 AuditSmartContract_Return(r, outcome)
    \/ \E r \in Reqs : LogAuditComplete_Written(r, TRUE)
    \/ \E r \in Reqs : AuditReportModel_Create(r, TRUE)

SpecScore == InitFresh /\ [][NextScore]_vars

(***************************************************************************)
(* Properties                                                              *)
(***************************************************************************)
QueryUsers == {""} \cup Owners
QueryDates == {NoDate} \cup Days

\* the stored events a query for the days startDate..endDate looks at
StoredEvents(startDate, endDate) ==
    IF isProduction THEN inMemoryCache
    ELSE LET start == IF startDate = NoDate THEN DateOf(now) ELSE startDate
             end == IF endDate = NoDate THEN DateOf(now) ELSE endDate
         IN ReadDays(auditFiles, start, end + 1)

IsComplete(log) == log.type = "audit_complete"
IsStart(log) == log.type = "audit_start"

\* C1: getAuditLogs and generateStatistics never return or count a "start"
\* event: every event of every query result is a "complete" event, and
\* totalAudits is the number of "complete" events the query looks at.
C1_StartEventsExcluded ==
    \A startDate \in QueryDates, endDate \in QueryDates :
       /\ \A userEmail \in QueryUsers :
             \A log \in Range(getAuditLogs(startDate, endDate, userEmail)) :
                IsComplete(log)
       /\ generateStatistics(startDate, endDate).totalAudits
             = Len(SelectSeq(StoredEvents(startDate, endDate), IsComplete))

\* C2: chains are flat: every re-audit refers to a stored record that is
\* not a re-audit, so no record referred to as an original is a re-audit.
C2_ChainsFlat ==
    \A d \in Range(records) :
       d.isReAudit =>
          /\ "originalAuditId" \in DOMAIN d
          /\ \E o \in Range(records) : o._id = d.originalAuditId /\ ~o.isReAudit

\* C3: for every record and its owner, chainOf puts a record that is not
\* a re-audit in the "original" slot, the chain has exactly one such
\* record, and the re-audits returned are exactly the owner's records that
\* refer to it, most recent first.
C3_ChainOfOriginal ==
    \A d \in Range(records) :
       LET chain == chainOf(d._id, d.userEmail)
       IN /\ chain.status = 200
          /\ chain.originalAudit # <<>>
          /\ ~chain.originalAudit[1].isReAudit
          /\ \A x \in chain.reAudits : x.isReAudit
          /\ chain.reAudits =
                {x \in Range(records) :
                    /\ x.userEmail = d.userEmail
                    /\ "originalAuditId" \in DOMAIN x
                    /\ x.originalAuditId = chain.originalAudit[1]._id}
          /\ \A order \in SortByAuditedAtDesc(chain.reAudits) :
                \A i, j \in DOMAIN order :
                   i < j => order[i].auditedAt >= order[j].auditedAt

\* the positions of the history that hold an event of request r
StartsOf(r) == {i \in DOMAIN pushed : IsStart(pushed[i]) /\ pushed[i].requestId = r}
CompletesOf(r) == {i \in DOMAIN pushed : IsComplete(pushed[i]) /\ pushed[i].requestId = r}
\* the lines of the files that come from request r
FileLinesOf(files, r) ==
    {line \in UNION {Range(files[d]) : d \in DOMAIN files} : line.requestId = r}

\* the request r carried a well-formed body from an allowed owner
Admitted(r) == req[r].userEmail \in Owners /\ req[r].code.defined

\* C10: a contract text that fails validation (empty, blank or longer than
\* MAX_CONTRACT_SIZE) is rejected before any side effect: no start or
\* complete event, no engine call and no error-log entry.
C10_ValidationBeforeSideEffects ==
    \A r \in Reqs :
       (pc[r] = "done" /\ Admitted(r) /\ validateContractCode(req[r].code) # "ok") =>
          /\ StartsOf(r) = {} /\ CompletesOf(r) = {}
          /\ FileLinesOf(auditFiles, r) = {}
          /\ FileLinesOf(errorFiles, r) = {}
          /\ ~req[r].engineCalled

\* the records request r has created
RecordsOf(r) == {d \in Range(records) : d.requestId = r}

NotFoundResponse == [status |-> 404, error |-> "Original audit not found or access denied"]

\* the request r is a re-audit that has looked its original up
LookedUp(r) ==
    /\ pc[r] = "done" /\ req[r].route = "reaudit" /\ Admitted(r)
    /\ req[r].code.trimLength > 0
    /\ req[r].originalAuditId # 0 /\ ~req[r].lookupFailed

\* the owner of request r has no record of the id the request names
NotOwn(r) ==
    \A d \in Range(records) :
       d._id = req[r].originalAuditId => d.userEmail # req[r].userEmail

\* C4: a re-audit of an id the caller has no record of gets the same
\* response and leaves the same (unchanged) event log and record store
\* whether the id is absent or belongs to another owner.
C4_NoExistenceLeak ==
    \A r \in Reqs :
       (LookedUp(r) /\ NotOwn(r)) =>
          /\ req[r].resp = <<NotFoundResponse>>
          /\ StartsOf(r) = {} /\ CompletesOf(r) = {}
          /\ FileLinesOf(auditFiles, r) = {}
          /\ FileLinesOf(errorFiles, r) = {}
          /\ RecordsOf(r) = {}

\* a re-audit of a record of another owner has been answered, and one of an
\* absent id could be answered the same way
C4_Witness ==
    \E r \in Reqs :
       /\ LookedUp(r) /\ NotOwn(r)
       /\ \E d \in Range(records) : d._id = req[r].originalAuditId
       /\ \E id \in AuditIds : id # 0 /\ \A d \in Range(records) : d._id # id

\* C5: in either mode the cache never holds more than maxCacheSize entries.
C5_CacheBounded == Len(inMemoryCache) <= maxCacheSize

\* more entries were pushed than the cache holds, and it is full
C5_Witness == Len(pushed) > maxCacheSize /\ Len(inMemoryCache) = maxCacheSize

\* C6: whatever the interleaving of the appends, the cache holds exactly
\* the last min(n, maxCacheSize) of the n entries pushed, in push order,
\* each once.
C6_CacheIsLatestPushed ==
    /\ inMemoryCache = SliceLast(pushed, maxCacheSize)
    /\ \A i, j \in DOMAIN inMemoryCache :
          i # j => inMemoryCache[i] # inMemoryCache[j]

\* two requests have pushed their events interleaved, the first entry
\* pushed is evicted and the last one is in the cache
C6_Witness ==
    /\ Len(pushed) > maxCacheSize
    /\ pushed[1] \notin Range(inMemoryCache)
    /\ pushed[Len(pushed)] \in Range(inMemoryCache)
    /\ \E i, j, k \in DOMAIN pushed :
          /\ i < j /\ j < k
          /\ pushed[i].requestId = pushed[k].requestId
          /\ pushed[j].requestId # pushed[i].requestId

\* C7: a workflow that has appended a "start" event appends exactly one
\* "complete" event with the same event id and request id before it
\* responds, and none at any other time.
C7_OneCompletePerStart ==
    \A r \in Reqs :
       /\ Cardinality(CompletesOf(r)) <= 1
       /\ \A i \in CompletesOf(r) :
             /\ pushed[i].id = req[r].logId
             /\ \E j \in StartsOf(r) : j < i /\ pushed[j].id = pushed[i].id
       /\ Cardinality(StartsOf(r)) <= 1
       /\ (pc[r] = "done" /\ StartsOf(r) # {}) => Cardinality(CompletesOf(r)) = 1

\* a re-audit whose engine call failed has responded
C7_Witness ==
    \E r \in Reqs :
       /\ pc[r] = "done" /\ req[r].route = "reaudit" /\ req[r].engineCalled
       /\ req[r].err # <<>> /\ StartsOf(r) # {}

\* C8: storage write failures do not change the outcome: an event whose
\* file append failed is in the history of the cache all the same, a
\* failed "start" append still hands its id to the workflow, and a report
\* whose save failed is still returned as a success.
C8_StorageFailuresAbsorbed ==
    /\ \A e \in failedAppends :
          /\ e \in Range(pushed)
          /\ IsStart(e) => req[e.requestId].logId = e.id
          /\ (pc[e.requestId] = "done" /\ req[e.requestId].report # <<>>)
                => req[e.requestId].resp[1].status = 200
    /\ \A r \in Reqs :
          (pc[r] = "done" /\ req[r].dbFailed) =>
             /\ req[r].resp[1].status = 200
             /\ req[r].resp[1].success
             /\ req[r].resp[1].data = req[r].report[1]

\* a workflow whose report could not be saved has responded
C8_Witness == \E r \in Reqs : pc[r] = "done" /\ req[r].dbFailed

\* C9: when the engine call fails, whatever the kind, the workflow appends
\* exactly one "complete" event with success false, no credit and the
\* classified message, writes no record and returns the generic error of
\* its route.
C9_EngineFailure ==
    \A r \in Reqs :
       (pc[r] = "done" /\ req[r].engineCalled /\ req[r].err # <<>>) =>
          /\ Cardinality(CompletesOf(r)) = 1
          /\ \A i \in CompletesOf(r) :
                /\ ~pushed[i].success
                /\ pushed[i].creditsConsumed = 0
                /\ "errorMessage" \in DOMAIN pushed[i]
                /\ pushed[i].errorMessage = req[r].err[1].message
          /\ RecordsOf(r) = {}
          /\ req[r].resp =
                <<[status |-> 500,
                   error |-> IF req[r].route = "audit"
                             THEN "Failed to audit smart contract. Please try again later."
                             ELSE "Failed to audit improved contract. Please try again later."]>>

\* an audit whose engine call timed out has responded
C9_Witness ==
    \E r \in Reqs :
       /\ pc[r] = "done" /\ req[r].engineCalled /\ req[r].err # <<>>
       /\ req[r].err[1].code = "TIMEOUT"

\* the day a query bound stands for: today when the bound is left out
BoundDay(date) == IF date = NoDate THEN DateOf(now) ELSE date

\* C11: in production mode no file write is ever attempted: whatever the
\* workflows have logged, no audit or error file has a line and no append
\* has been tried and failed; the events are in the cache only.
C11_NoFileWriteInProduction ==
    isProduction =>
       /\ \A d \in DOMAIN auditFiles : auditFiles[d] = <<>>
       /\ \A d \in DOMAIN errorFiles : errorFiles[d] = <<>>
       /\ failedAppends = {}

\* C12: in development mode getAuditLogs(startDate, endDate) returns only
\* lines of the daily files dated startDate..endDate, both included, a
\* bound left out standing for today.
C12_QueryWithinRange ==
    ~isProduction =>
       \A startDate \in QueryDates, endDate \in QueryDates :
          \A log \in Range(getAuditLogs(startDate, endDate, "")) :
             \E d \in DOMAIN auditFiles :
                /\ BoundDay(startDate) <= d /\ d <= BoundDay(endDate)
                /\ log \in Range(auditFiles[d])

\* C13: in development mode a malformed line costs only itself: every
\* well-formed "complete" line of the file of day d, before or after a
\* malformed one, is returned by getAuditLogs(d, d).
C13_MalformedLineSkipped ==
    ~isProduction =>
       \A d \in DOMAIN auditFiles :
          \A i \in DOMAIN auditFiles[d] :
             (JSONparses(auditFiles[d][i]) /\ IsComplete(auditFiles[d][i])) =>
                auditFiles[d][i] \in Range(getAuditLogs(d, d, ""))

\* C14: getRecentActivity(limit) returns its events most recent first: the
\* timestamps of the "complete" events it returns never increase along the
\* sequence, whatever the order in which concurrent appends end.
C14_RecentMostRecentFirst ==
    \A limit \in 1..(maxCacheSize + 1) :
       LET recent == SelectSeq(getRecentActivity(limit), IsComplete)
       IN \A i, j \in DOMAIN recent :
             i < j => recent[i].timestamp >= recent[j].timestamp

\* the weighted sum of a severity summary
Weighted(summary) ==
    25 * summary.CRITICAL + 15 * summary.HIGH + 5 * summary.MEDIUM + summary.LOW

\* the requests that hold the report of a successful engine call
Reported == {r \in Reqs : req[r].report # <<>>}

\* C15: for the findings of every report, riskScore is
\* min(100, 25*CRITICAL + 15*HIGH + 5*MEDIUM + LOW), lies in 0..100, does
\* not decrease when a finding of any severity is added, and with the
\* security score (postAuditScore, as returned by POST /api/audit) adds up
\* to 100; [CRITICAL, HIGH, LOW] gives 41 and 59.
C15_RiskScore ==
    /\ calculateRiskScore(<<"CRITICAL", "HIGH", "LOW">>) = 41
    /\ calculatePostAuditScore(<<"CRITICAL", "HIGH", "LOW">>) = 59
    /\ \A r \in Reported :
          LET vulns == req[r].report[1].vulnerabilities
              riskScore == calculateRiskScore(vulns)
          IN /\ riskScore = Min(100, Weighted(summarizeVulnerabilities(vulns)))
             /\ riskScore \in 0..100
             /\ \A sev \in Severities :
                   calculateRiskScore(Append(vulns, sev)) >= riskScore
             /\ calculatePostAuditScore(vulns) + riskScore = 100
             /\ (pc[r] = "done" /\ req[r].route = "audit") =>
                   req[r].resp[1].metadata.postAuditScore + riskScore = 100

\* an audit has returned a report whose weighted sum is above 100
C15_Witness ==
    \E r \in Reported :
       /\ pc[r] = "done"
       /\ Weighted(summarizeVulnerabilities(req[r].report[1].vulnerabilities)) > 100

SavedReAudits ==
    {r \in Reqs : /\ pc[r] = "done" /\ req[r].route = "reaudit"
                  /\ req[r].resp # <<>> /\ "reAuditId" \in DOMAIN req[r].resp[1]}

\* C17: the improvement returned for a re-audit is
\* (original - new) / original * 100 to one decimal when the original has a
\* risk score that is not zero (80 -> 20 gives 75.0), and is null when the
\* original's risk score is zero or absent; it is never NaN or infinite.
C17_Improvement ==
    /\ PercentToFixed1(80 - 20, 80) = [kind |-> "number", tenths |-> 750]
    /\ \A r \in SavedReAudits :
          LET original == req[r].originalAudit[1]
              new == req[r].resp[1].metadata.newRiskScore
              improvement == req[r].resp[1].metadata.improvement
          IN /\ \A x \in Range(improvement) : x.kind = "number"
             /\ IF "riskScore" \in DOMAIN original /\ original.riskScore # 0
                THEN improvement =
                        <<[kind |-> "number",
                           tenths |-> RoundDiv((original.riskScore - new) * 1000,
                                               original.riskScore)]>>
                ELSE improvement = <<>>

\* the statistics of no event at all
ZeroStatistics ==
    [totalAudits |-> 0, totalCreditsConsumed |-> 0, totalUsers |-> 0,
     successRate |-> Zero, averageAuditDuration |-> Zero,
     vulnerabilityStats |->
         [totalVulnerabilities |-> 0,
          severityBreakdown |-> [critical |-> 0, high |-> 0, medium |-> 0, low |-> 0]],
     userStats |-> <<>>, dailyStats |-> <<>>]

\* the number of successful events of logs
Successful(logs) == Len(SelectSeq(logs, LAMBDA log : log.success))

\* C18: generateStatistics over a query that returns no event gives zero
\* totals, success rate 0, average duration 0, zero severity sums and empty
\* per-owner and per-day series; over a query that returns events the
\* success rate is successful / total * 100, between 0 and 100.
C18_StatisticsOfNothing ==
    \A startDate \in QueryDates, endDate \in QueryDates :
       LET logs == getAuditLogs(startDate, endDate, "")
           stats == generateStatistics(startDate, endDate)
       IN IF logs = <<>>
          THEN stats = ZeroStatistics
          ELSE /\ stats.successRate = Ratio(Successful(logs) * 100, Len(logs))
               /\ stats.successRate.den > 0
               /\ stats.successRate.num >= 0
               /\ stats.successRate.num <= 100 * stats.successRate.den

\* events have been logged, one query returns none of them and another
\* returns events of which some but not all are successful
C18_Witness ==
    /\ pushed # <<>>
    /\ \E startDate \in QueryDates, endDate \in QueryDates :
          getAuditLogs(startDate, endDate, "") = <<>>
    /\ \E startDate \in QueryDates, endDate \in QueryDates :
          LET logs == getAuditLogs(startDate, endDate, "")
          IN 0 < Successful(logs) /\ Successful(logs) < Len(logs)

\* every event appended: the entries pushed and the lines of the files
AppendedEvents ==
    Range(pushed) \cup UNION {Range(auditFiles[d]) : d \in DOMAIN auditFiles}

\* C19: every appended event consumes 0 or 1 credit, 1 exactly when it is
\* a successful "complete" event; so for every query totalCreditsConsumed
\* is the number of successful events returned, and the credits of each
\* owner's row and each day's row are that owner's and that day's numbers
\* of successful events, with one row per owner and per day.
C19_CreditsCountSuccesses ==
    /\ \A e \in AppendedEvents :
          /\ e.creditsConsumed \in {0, 1}
          /\ e.creditsConsumed = 1 <=> (IsComplete(e) /\ e.success)
    /\ \A startDate \in QueryDates, endDate \in QueryDates :
          LET logs == getAuditLogs(startDate, endDate, "")
              stats == generateStatistics(startDate, endDate)
              OfOwner(email) == SelectSeq(logs, LAMBDA log : log.userEmail = email)
              OfDay(date) == SelectSeq(logs, LAMBDA log : DateOf(log.timestamp) = date)
          IN /\ stats.totalCreditsConsumed = Successful(logs)
             /\ \A email \in {logs[i].userEmail : i \in DOMAIN logs} :
                   Cardinality({i \in DOMAIN stats.userStats :
                                   stats.userStats[i].email = email}) = 1
             /\ \A i \in DOMAIN stats.userStats :
                   stats.userStats[i].creditsConsumed
                      = Successful(OfOwner(stats.userStats[i].email))
             /\ \A date \in {DateOf(logs[i].timestamp) : i \in DOMAIN logs} :
                   Cardinality({i \in DOMAIN stats.dailyStats :
                                   stats.dailyStats[i].date = date}) = 1
             /\ \A i \in DOMAIN stats.dailyStats :
                   stats.dailyStats[i].creditsConsumed
                      = Successful(OfDay(stats.dailyStats[i].date))

\* one query returns a successful and a failed "complete" event, events of
\* two owners and events of two days
C19_Witness ==
    \E startDate \in QueryDates, endDate \in QueryDates :
       LET logs == getAuditLogs(startDate, endDate, "")
       IN \E i, j, k, l \in DOMAIN logs :
             /\ IsComplete(logs[i]) /\ logs[i].success
             /\ IsComplete(logs[j]) /\ ~logs[j].success
             /\ logs[k].userEmail # logs[i].userEmail
             /\ DateOf(logs[l].timestamp) # DateOf(logs[i].timestamp)

\* the logs of every day so far (the cache in production mode)
AllLogs == getAuditLogs(0, DateOf(now), "")

\* C20: each of the daily, weekly and monthly growth rates is exactly 0
\* when its prior period holds no event and (current - prior) / prior * 100
\* otherwise, never a quotient by zero, and no event is counted both in the
\* current and in the prior period of a pair.
C20_GrowthRate ==
    LET logs == AllLogs
        growth == calculateGrowthRate(logs)
        Rate(current, prior) ==
            IF prior = {} THEN Zero
            ELSE Ratio((Cardinality(current) - Cardinality(prior)) * 100,
                       Cardinality(prior))
    IN /\ todayAudits(logs) \cap yesterdayAudits(logs) = {}
       /\ thisWeekAudits(logs) \cap lastWeekAudits(logs) = {}
       /\ thisMonthAudits(logs) \cap lastMonthAudits(logs) = {}
       /\ growth.daily = Rate(todayAudits(logs), yesterdayAudits(logs))
       /\ growth.weekly = Rate(thisWeekAudits(logs), lastWeekAudits(logs))
       /\ growth.monthly = Rate(thisMonthAudits(logs), lastMonthAudits(logs))
       /\ growth.daily.den # 0 /\ growth.weekly.den # 0 /\ growth.monthly.den # 0

\* the week before the last seven days and the last seven days both hold
\* events, while yesterday holds none
C20_Witness ==
    /\ lastWeekAudits(AllLogs) # {}
    /\ thisWeekAudits(AllLogs) # {}
    /\ yesterdayAudits(AllLogs) = {}


(***************************************************************************)
(* C21: calculateUserSegmentation puts every owner with an event in the    *)
(* last 30 days in exactly one tier (power above 20 events, regular from 5 *)
(* to 20, light below 5), so the three tiers add up to the number of       *)
(* owners active in those 30 days, which is what calculateMAU returns.     *)
(***************************************************************************)
\* the events of the last 30 days among logs, their owners, and the number
\* of them an owner has
RecentEvents(logs) == {i \in DOMAIN logs : logs[i].timestamp >= now - 30 * DayLen}
ActiveOwners(logs) == {logs[i].userEmail : i \in RecentEvents(logs)}
RecentCount(logs, u) == Cardinality({i \in RecentEvents(logs) : logs[i].userEmail = u})

TiersPartition(logs, seg, active) ==
    /\ seg.powerUsers = Cardinality({u \in active : RecentCount(logs, u) > 20})
    /\ seg.regularUsers =
          Cardinality({u \in active : RecentCount(logs, u) >= 5 /\ RecentCount(logs, u) <= 20})
    /\ seg.lightUsers = Cardinality({u \in active : RecentCount(logs, u) < 5})
    /\ seg.powerUsers + seg.regularUsers + seg.lightUsers = Cardinality(active)
    /\ Cardinality(active) = calculateMAU(logs)

C21_TiersPartitionActiveOwners ==
    TiersPartition(AllLogs, calculateUserSegmentation(AllLogs), ActiveOwners(AllLogs))

\* an owner with exactly 20 recent events next to an owner in another tier,
\* while an older event has left the 30 days
TwoRegulars(logs) ==
    /\ \E u \in ActiveOwners(logs) : RecentCount(logs, u) = 20
    /\ calculateUserSegmentation(logs).regularUsers = 2
    /\ RecentEvents(logs) # DOMAIN logs

C21_Witness == TwoRegulars(AllLogs)

(***************************************************************************)
(* C22: generateStatistics returns the rows of the owners by event count,  *)
(* largest first, and the rows of the days by date, earliest first,        *)
(* whatever the order in which the events were appended or are read.       *)
(***************************************************************************)
RollupsSorted(st) ==
    /\ \A i, j \in DOMAIN st.userStats :
          i < j => st.userStats[i].auditCount >= st.userStats[j].auditCount
    /\ \A i, j \in DOMAIN st.dailyStats :
          i < j => st.dailyStats[i].date < st.dailyStats[j].date

C22_RollupsSorted == RollupsSorted(generateStatistics(0, DateOf(now)))

(***************************************************************************)
(* C23: the aggregates do not depend on the order of their input: two      *)
(* orderings of the same events, or of the same audit records, give the    *)
(* same totals, success rate, average duration, severity sums, last        *)
(* activity of each owner and average pre- and post-audit scores, also     *)
(* when two re-audits of one chain have the same timestamp.                *)
(***************************************************************************)
\* logs with the entries at i and j exchanged
Exchanged(logs, i, j) ==
    [k \in DOMAIN logs |-> IF k = i THEN logs[j] ELSE IF k = j THEN logs[i] ELSE logs[k]]

\* what C23 says of the statistics of the logger and of the reports
LoggerAggregates(st) ==
    [totalAudits |-> st.totalAudits, totalCreditsConsumed |-> st.totalCreditsConsumed,
     totalUsers |-> st.totalUsers, successRate |-> st.successRate,
     averageAuditDuration |-> st.averageAuditDuration,
     vulnerabilityStats |-> st.vulnerabilityStats,
     lastActivity |-> {<<st.userStats[i].email, st.userStats[i].lastAudit>> :
                          i \in DOMAIN st.userStats}]
ReportAggregates(st) ==
    [totalAudits |-> st.totalAudits, totalCreditsConsumed |-> st.totalCreditsConsumed,
     totalUsers |-> st.totalUsers,
     averagePreAuditScore |-> st.averagePreAuditScore,
     averagePostAuditScore |-> st.averagePostAuditScore,
     averageAuditDuration |-> st.averageAuditDuration,
     vulnerabilityStats |-> st.vulnerabilityStats,
     lastActivity |-> {<<st.userStats[i].email, st.userStats[i].lastAudit>> :
                          i \in DOMAIN st.userStats}]

LoggerCommutes(logs) ==
    \A i, j \in DOMAIN logs :
       LoggerAggregates(StatisticsOf(Exchanged(logs, i, j)))
          = LoggerAggregates(StatisticsOf(logs))
ReportsCommute(orders) ==
    \A p, q \in orders :
       ReportAggregates(StatsOfReports(p)) = ReportAggregates(StatsOfReports(q))

C23_AggregatesCommute ==
    /\ LoggerCommutes(AllLogs)
    /\ ReportsCommute(AuditReportModel_find(NoDate, NoDate))

(***************************************************************************)
(* C24: the record POST /api/audit stores is not a re-audit, refers to no  *)
(* original and carries the risk score of its findings, so that a later    *)
(* re-audit has a score to be compared with.                               *)
(***************************************************************************)
IsScoredOriginal(d) ==
    /\ ~d.isReAudit
    /\ "originalAuditId" \notin DOMAIN d
    /\ "riskScore" \in DOMAIN d
    /\ d.riskScore = calculateRiskScore(d.vulnerabilities)

C24_OriginalCarriesRiskScore ==
    \A r \in Reqs :
       (req[r].route = "audit" /\ pc[r] = "done") =>
          \A d \in RecordsOf(r) : IsScoredOriginal(d)

(***************************************************************************)
(* C25: the post-audit average GET /api/analytics/stats reports is the     *)
(* mean, over the chains with a re-audit in the queried range, of the risk *)
(* score of the chain's re-audit with the latest timestamp: one value per  *)
(* such chain however many re-audits it has, none for the originals and    *)
(* for the chains without a re-audit.                                      *)
(***************************************************************************)
\* the re-audits in the queried range
ReAuditsInRange(startDate, endDate) ==
    {d \in Range(records) : /\ InDateRange(d, startDate, endDate)
                            /\ d.isReAudit /\ "originalAuditId" \in DOMAIN d}

\* one re-audit with the latest timestamp for each chain
LatestReAudits(startDate, endDate) ==
    LET reAudits == ReAuditsInRange(startDate, endDate)
        chains == {d.originalAuditId : d \in reAudits}
    IN {pick \in [chains -> reAudits] :
           \A c \in chains :
              /\ pick[c].originalAuditId = c
              /\ \A d \in reAudits :
                    d.originalAuditId = c => d.auditedAt <= pick[c].auditedAt}

\* tenths is the tenth nearest to sum / n, and 0 when n is 0
IsMeanInTenths(tenths, sum, n) ==
    IF n = 0 THEN tenths = 0
    ELSE /\ 2 * (tenths * n - 10 * sum) <= n
         /\ 2 * (10 * sum - tenths * n) <= n

PostAverageIsMeanOfLatest(orders, picks) ==
    \A reports \in orders :
       \E pick \in picks :
          IsMeanInTenths(averagePostAuditScore(reports),
                         SumRiskScores(pick), Cardinality(DOMAIN pick))

Limits == 0..(maxCacheSize + 1)

RecentIsLatest(limit, qualifying) ==
    LET recent == getRecentActivity(limit)
        n == Min(limit, Len(qualifying))
    IN /\ Len(recent) = n
       /\ \A i \in 1..n : recent[i] = qualifying[Len(qualifying) + 1 - i]

C26_RecentReturnsAtMostLimit ==
    \A limit \in Limits :
       RecentIsLatest(limit, SelectSeq(inMemoryCache, IsCompletedAudit))

(***************************************************************************)
(* C27: the collection is append-only: whatever audits and re-audits are   *)
(* made, the records only get more, a record once created keeps every     *)
(* field, and a record the chain query returns stays returned after any    *)
(* number of later re-audits.                                              *)
(***************************************************************************)
ChainKept(before, after) ==
    before.status = 200 =>
       /\ after.status = 200
       /\ after.originalAudit = before.originalAudit
       /\ before.reAudits \subseteq after.reAudits

\* a step that changes the collection adds to it
AppendOnly ==
    records' # records =>
       /\ Len(records') > Len(records)
       /\ \A i \in DOMAIN records : records'[i] = records[i]
       /\ \A id \in AuditIds, userEmail \in Owners :
             ChainKept(chainOf(id, userEmail), chainOf(id, userEmail)')

C27_AppendOnly == [][AppendOnly]_vars

\* a chain of an original and a re-audit has got a second re-audit
C27_Witness ==
    \E id \in AuditIds, userEmail \in Owners :
       /\ chainOf(id, userEmail).status = 200
       /\ chainOf(id, userEmail).originalAudit # <<>>
       /\ Cardinality(chainOf(id, userEmail).reAudits) >= 2

(***************************************************************************)
(* C28: a re-audit whose original is missing or belongs to another owner   *)
(* leaves the state as it was: no start and no complete event gets into    *)
(* the cache or the files, the engine is not called and no record is       *)
(* created.                                                                *)
(***************************************************************************)
\* request r, whose owner has no record of the id it names, takes the step
\* in which its look-up comes back
LooksUpNotOwn(r) ==
    /\ pc[r] = "findOne" /\ pc'[r] # "findOne"
    /\ req[r].originalAuditId # 0 /\ ~req'[r].lookupFailed
    /\ NotOwn(r)

RejectedLeavesState(r) ==
    /\ pc'[r] = "done"
    /\ UNCHANGED <<inMemoryCache, auditFiles, errorFiles, records, pushed,
                   failedAppends, nextLogId>>
    /\ ~req'[r].engineCalled
    /\ StartsOf(r) = {} /\ CompletesOf(r) = {}
    /\ FileLinesOf(auditFiles, r) = {}
    /\ RecordsOf(r) = {}

C28_RejectedReAuditNoEffect ==
    [][\A r \in Reqs : LooksUpNotOwn(r) => RejectedLeavesState(r)]_vars

\* a re-audit of an id no record has was answered, in a process that writes
\* the files
C28_Witness ==
    \E r \in Reqs :
       /\ LookedUp(r) /\ ~isProduction
       /\ \A d \in Range(records) : d._id # req[r].originalAuditId

(***************************************************************************)
(* C29: a record is written only after the complete event of its request,  *)
(* with success = true, has been appended: every record a request has      *)
(* stored has the request id of a successful complete event appended       *)
(* before; a successful complete event may have no record (the write of    *)
(* the report failed).                                                     *)
(***************************************************************************)
\* the successful complete events of request r in the history so far
SuccessfulCompletesOf(r) == {i \in CompletesOf(r) : pushed[i].success}

\* a step that stores a record finds the complete event already appended
WrittenAfterComplete ==
    \A i \in DOMAIN records' :
       i \notin DOMAIN records => SuccessfulCompletesOf(records'[i].requestId) # {}

C29_RecordAfterCompleteEvent == [][WrittenAfterComplete]_vars

\* a request has stored its record after its successful complete event
C29_Witness ==
    \E r \in Reqs :
       /\ pc[r] = "done" /\ RecordsOf(r) # {}
       /\ SuccessfulCompletesOf(r) # {}

(***************************************************************************)
(* C30: chains never cross owners: every record that is a re-audit has the *)
(* owner of the record its original reference points to, and the chain     *)
(* query of an owner never returns a record of anyone else.                *)
(***************************************************************************)
SameOwnerAsOriginal(d) ==
    /\ "originalAuditId" \in DOMAIN d
    /\ \E o \in Range(records) : o._id = d.originalAuditId
    /\ \A o \in Range(records) : o._id = d.originalAuditId => o.userEmail = d.userEmail

ChainOwnedBy(chain, userEmail) ==
    \A x \in Range(chain.originalAudit) \cup chain.reAudits : x.userEmail = userEmail

C30_ChainsNeverCrossOwners ==
    /\ \A d \in Range(records) : d.isReAudit => SameOwnerAsOriginal(d)
    /\ \A id \in AuditIds, userEmail \in Owners :
          ChainOwnedBy(chainOf(id, userEmail), userEmail)

\* an owner has a chain with a re-audit, and the other owner's re-audit of
\* a record of that chain was refused
C30_Witness ==
    \E r \in Reqs, d \in Range(records) :
       /\ d.isReAudit /\ d.userEmail # req[r].userEmail
       /\ LookedUp(r) /\ req[r].originalAuditId \in {d._id, d.originalAuditId}
       /\ chainOf(d._id, d.userEmail).reAudits # {}

=============================================================================
